---- MODULE Spec2Model ----
(***************************************************************************)
(* TaskFlow: the task collection of TaskFlowPage, the add-task dialog's    *)
(* submit handler, the TaskItem checkbox handlers, the localStorage item   *)
(* behind the collection, import and export, and the filtered, sorted and  *)
(* aggregated views.                                                       *)
(*                                                                         *)
(* An optional field (dueDate?, completedAt?, repetitions?, ...) is the    *)
(* empty sequence when it is undefined and a one-element sequence when it  *)
(* holds a value.  uuidv4() is a fresh identifier: the next value of a     *)
(* counter.  new Date() returns one of Instants.                           *)
(***************************************************************************)
EXTENDS Integers, Sequences, FiniteSets, TLC

\* ---------------------------------------------------------------- bounds
MaxId == 3            \* identifiers uuidv4() hands out in one run
MaxRepetitions == 2   \* the repetitions value typed into the form
MaxSubtasks == 2      \* most subtask titles in one draft
MaxBatch == 2         \* most setTasks calls React batches into one render

VARIABLES
    tasks,      \* TaskFlowPage: const [tasks, setTasks]
    rendered,   \* the tasks the mounted TaskItems were last rendered with
    nextId,     \* the next identifier uuidv4() returns
    pending,    \* setTasks calls since the last committed render
    last,       \* the handler that ran last, with its arguments
    stored,     \* window.localStorage: the item under the key 'tasks'
    reader,     \* importTasks: the file the FileReader is reading
    statusFilter,   \* TaskFlowPage: const [statusFilter, setStatusFilter]
    filteredTasks,  \* TaskFlowPage: the memoized filteredTasks
    chartData,      \* AnalyticsDashboard: the memoized chartData
    dateNow,        \* the instant new Date() and Date.now() return in a render
    description,    \* AddTaskDialog: the description field of the form
    draftSubtasks,  \* AddTaskDialog: const [subtasks, setSubtasks]
    isSuggesting,   \* AddTaskDialog: const [isSuggesting, setIsSuggesting]
    request,        \* the getAISubtaskSuggestions call that is awaited
    draftNo,        \* the drafts of the dialog, counted from the first
    toast,          \* useToast: the toast shown last
    isMounted,      \* useLocalStorage: const [isMounted, setIsMounted]
    isLoaded,       \* useLocalStorage: the load effect has run
    spawned         \* history: the successors each task has spawned so far

\* FileReader
ioVars == <<reader>>
\* what the renders of TaskFlowPage and AnalyticsDashboard compute
viewVars == <<statusFilter, filteredTasks, chartData, dateNow>>

\* the state of AddTaskDialog and its toasts
dialogVars == <<description, draftSubtasks, isSuggesting, request, draftNo,
                toast>>
\* the position of useLocalStorage in its mount, load and save effects
mountVars == <<isMounted, isLoaded>>

vars == <<tasks, rendered, nextId, pending, last, stored, ioVars, viewVars,
          dialogVars, mountVars, spawned>>

None == <<>>
Some(v) == <<v>>

\* the instants new Date() returns while the handlers run; the handlers only
\* store the instant, nothing of the collection's logic compares two of them
Instants == {1}

\* ------------------------------------------------------------ sequences
Range(s) == { s[i] : i \in 1..Len(s) }

RECURSIVE FilterSeq(_, _)
\* Array.prototype.filter with the predicate given as the set of kept values
FilterSeq(s, keep) ==
    IF s = <<>> THEN <<>>
    ELSE IF Head(s) \in keep
         THEN <<Head(s)>> \o FilterSeq(Tail(s), keep)
         ELSE FilterSeq(Tail(s), keep)

\* Array.prototype.findIndex: the first index whose task has the id, 0 for -1
findIndex(ts, id) ==
    IF \E i \in 1..Len(ts) : ts[i].id = id
    THEN CHOOSE i \in 1..Len(ts) :
            /\ ts[i].id = id
            /\ \A j \in 1..(i - 1) : ts[j].id # id
    ELSE 0

\* Array.prototype.every over the subtasks' completed flags
every(subs) == \A i \in 1..Len(subs) : subs[i].completed

\* object spread { ...t, ...u }: the keys of u override those of t
Merge(t, u) ==
    [f \in (DOMAIN t) \cup (DOMAIN u) |-> IF f \in DOMAIN u THEN u[f] ELSE t[f]]

\* ------------------------------------------------------------------- JSON
\* A JSON text is modelled by the value it denotes: an array with its items,
\* an object with its members, a number, or null; Malformed is a text on
\* which JSON.parse throws a SyntaxError, and NoText the result of a
\* FileReader that is not a string.  The members of an object are the plain
\* values: numbers, strings, booleans and the subtask arrays.
Malformed == [kind |-> "malformed"]
NoText == [kind |-> "notext"]
JSONnull == [kind |-> "null"]

\* the fields the Task interface marks with ?, which the model keeps
OptionalFields ==
    {"dueDate", "completedAt", "recurringInterval", "recurringIntervalUnit",
     "repetitions"}

\* JSON.stringify of one task with every undefined member written as null
JSONobject_NullForUndefined(t) ==
    [kind |-> "object",
     members |-> [f \in DOMAIN t |->
                     IF f \in OptionalFields
                     THEN (IF t[f] = None THEN JSONnull ELSE t[f][1])
                     ELSE t[f]]]

\* JSON.stringify of one task: a key whose value is undefined is left out,
\* the value of every other key is written
JSONobject(t) ==
    LET keys == { f \in DOMAIN t : ~(f \in OptionalFields /\ t[f] = None) }
    IN  [kind |-> "object",
         members |-> [f \in keys |->
                         IF f \in OptionalFields THEN t[f][1] ELSE t[f]]]

\* JSON.stringify(tasks)
JSONstringify(ts) ==
    [kind |-> "array", items |-> [i \in 1..Len(ts) |-> JSONobject(ts[i])]]

\* an object JSON.parse built, as the page reads it: an optional key that is
\* absent reads undefined, a key that is present reads its value
parsedObject(o) ==
    [f \in (DOMAIN o.members) \cup OptionalFields |->
        IF f \in OptionalFields
        THEN (IF f \in DOMAIN o.members THEN Some(o.members[f]) ELSE None)
        ELSE o.members[f]]

\* JSON.parse of a text that denotes an array of objects
JSONparse(text) ==
    [i \in 1..Len(text.items) |-> parsedObject(text.items[i])]

\* ------------------------------------------------------- the add-task form
\* the type chosen in the form: the collection's operations never read a
\* task's type, so the drafts of this model are the scheduled ones
Types == {"scheduled"}
FormDueDates == {None, Some(1)}
FormIntervals == {None, Some(1)}
FormUnits == {None, Some("days")}
\* smaller repetition counts arise in the successors
FormRepetitions == {None, Some(0), Some(MaxRepetitions)}

\* the values react-hook-form hands to onSubmit once formSchema accepted them;
\* the recurrence inputs are only shown while isRecurring is on
FormValues ==
    [title : {"t"}, type : Types, dueDate : FormDueDates, isRecurring : {FALSE},
     recurringInterval : {None}, recurringIntervalUnit : {None},
     repetitions : {None}]
    \cup
    { v \in [title : {"t"}, type : Types, dueDate : FormDueDates,
             isRecurring : {TRUE}, recurringInterval : FormIntervals,
             recurringIntervalUnit : FormUnits, repetitions : FormRepetitions] :
        \* at most one recurrence input left empty
        Cardinality({ f \in {"recurringInterval", "recurringIntervalUnit",
                             "repetitions"} : v[f] = None }) <= 1 }

\* !x for an optional number: undefined and 0 are falsy
Falsy(opt) == opt = None \/ opt = Some(0)

\* the early returns of onSubmit without the one for the due date
Rejected_NoDueDateCheck(values) ==
    /\ values.isRecurring
    /\ \/ Falsy(values.recurringInterval)
       \/ values.recurringIntervalUnit = None
       \/ Falsy(values.repetitions)

\* the early returns of onSubmit
Rejected(values) ==
    \/ values.type = "scheduled" /\ values.dueDate = None
    \/ /\ values.isRecurring
       /\ \/ Falsy(values.recurringInterval)
          \/ values.recurringIntervalUnit = None
          \/ Falsy(values.repetitions)

finalDueDate(values) ==
    IF values.type = "scheduled" /\ values.dueDate # None
    THEN values.dueDate
    ELSE None

\* subtasks.map((title) => ({ id: uuidv4(), title, completed: false }))
finalSubtasks(n, firstId) ==
    [i \in 1..n |-> [id |-> firstId + i - 1, title |-> "s", completed |-> FALSE]]

\* ------------------------------------------------------------ TaskFlowPage
\* addTask putting the new task first: [newTask, ...prevTasks]
addTask_Prepends(prevTasks, task, uuid) ==
    LET newTask == Merge(task, [id |-> uuid, completed |-> FALSE,
                                completedAt |-> None])
    IN  <<newTask>> \o prevTasks

\* addTask: the state updater of setTasks, with the id uuidv4() returned
addTask(prevTasks, task, uuid) ==
    LET newTask == Merge(task, [id |-> uuid, completed |-> FALSE,
                                completedAt |-> None])
    IN  Append(prevTasks, newTask)

\* the successor built without repetitions: newRepetitions
newTaskOf_KeepsRepetitions(originalTask, uuid, newRepetitions) ==
    Merge(originalTask,
          [id |-> uuid,
           completed |-> FALSE,
           completedAt |-> None,
           subtasks |-> [i \in 1..Len(originalTask.subtasks) |->
                            Merge(originalTask.subtasks[i],
                                  [completed |-> FALSE])]])

\* the successor pushed by updateTask
newTaskOf(originalTask, uuid, newRepetitions) ==
    Merge(originalTask,
          [id |-> uuid,
           completed |-> FALSE,
           completedAt |-> None,
           repetitions |-> Some(newRepetitions),
           subtasks |-> [i \in 1..Len(originalTask.subtasks) |->
                            Merge(originalTask.subtasks[i],
                                  [completed |-> FALSE])]])

\* the condition without its first conjunct updates.completed
spawnCondition_AnyUpdate(originalTask, updates) ==
    /\ originalTask.isRecurring
    /\ (IF originalTask.repetitions = None THEN 0
        ELSE originalTask.repetitions[1]) > 0

\* updates.completed && originalTask.isRecurring && (repetitions ?? 0) > 0
spawnCondition(originalTask, updates) ==
    /\ "completed" \in DOMAIN updates
    /\ updates.completed
    /\ originalTask.isRecurring
    /\ (IF originalTask.repetitions = None THEN 0
        ELSE originalTask.repetitions[1]) > 0

\* the successor's count taken over without the decrement
newRepetitionsOf_NoDecrement(originalTask) ==
    IF originalTask.repetitions = None THEN 1
    ELSE originalTask.repetitions[1]

\* (originalTask.repetitions ?? 1) - 1
newRepetitionsOf(originalTask) ==
    (IF originalTask.repetitions = None THEN 1
     ELSE originalTask.repetitions[1]) - 1

\* the successor test written newRepetitions >= 0
spawns_AtZero(originalTask, updates) ==
    /\ spawnCondition(originalTask, updates)
    /\ newRepetitionsOf(originalTask) >= 0

\* newRepetitions > 0
spawns(originalTask, updates) ==
    /\ spawnCondition(originalTask, updates)
    /\ newRepetitionsOf(originalTask) > 0

\* updateTask without the early return for taskIndex === -1: the update lands
\* on the task at the end of the array
updateTask_NoNotFoundReturn(prevTasks, id, updates, uuid) ==
    LET found == findIndex(prevTasks, id)
        taskIndex == IF found = 0 THEN Len(prevTasks) ELSE found
    IN  IF taskIndex = 0 THEN prevTasks
        ELSE LET originalTask == prevTasks[taskIndex]
                 updatedTask == Merge(originalTask, updates)
                 newTasks == [prevTasks EXCEPT ![taskIndex] = updatedTask]
             IN  IF spawns(originalTask, updates)
                 THEN Append(newTasks,
                             newTaskOf(originalTask, uuid,
                                       newRepetitionsOf(originalTask)))
                 ELSE newTasks

\* updateTask that finds by the subtask identifiers as well: the updates land
\* on every task that shares a subtask identifier with the found one
updateTask_SharedSubtasks(prevTasks, id, updates, uuid) ==
    LET taskIndex == findIndex(prevTasks, id)
    IN  IF taskIndex = 0 THEN prevTasks
        ELSE LET originalTask == prevTasks[taskIndex]
                 shares(t) == \E a \in Range(t.subtasks),
                                 b \in Range(originalTask.subtasks) :
                                  a.id = b.id
                 newTasks == [i \in 1..Len(prevTasks) |->
                                 IF i = taskIndex \/ shares(prevTasks[i])
                                 THEN Merge(prevTasks[i], updates)
                                 ELSE prevTasks[i]]
             IN  IF spawns(originalTask, updates)
                 THEN Append(newTasks,
                             newTaskOf(originalTask, uuid,
                                       newRepetitionsOf(originalTask)))
                 ELSE newTasks

\* updateTask with newTasks.unshift(newTask): the successor goes in front
updateTask_Unshifts(prevTasks, id, updates, uuid) ==
    LET taskIndex == findIndex(prevTasks, id)
    IN  IF taskIndex = 0 THEN prevTasks
        ELSE LET originalTask == prevTasks[taskIndex]
                 updatedTask == Merge(originalTask, updates)
                 newTasks == [prevTasks EXCEPT ![taskIndex] = updatedTask]
             IN  IF spawns(originalTask, updates)
                 THEN <<newTaskOf(originalTask, uuid,
                                  newRepetitionsOf(originalTask))>>
                      \o newTasks
                 ELSE newTasks

\* updateTask: the state updater of setTasks
updateTask(prevTasks, id, updates, uuid) ==
    LET taskIndex == findIndex(prevTasks, id)
    IN  IF taskIndex = 0 THEN prevTasks
        ELSE LET originalTask == prevTasks[taskIndex]
                 updatedTask == Merge(originalTask, updates)
                 newTasks == [prevTasks EXCEPT ![taskIndex] = updatedTask]
             IN  IF spawns(originalTask, updates)
                 THEN Append(newTasks,
                             newTaskOf(originalTask, uuid,
                                       newRepetitionsOf(originalTask)))
                 ELSE newTasks

\* whether this call of updateTask draws an identifier from uuidv4()
drawsId(prevTasks, id, updates) ==
    LET taskIndex == findIndex(prevTasks, id)
    IN  taskIndex # 0 /\ spawns(prevTasks[taskIndex], updates)

\* deleteTask with the test inverted: task.id === id
deleteTask_KeepsMatch(prevTasks, id) ==
    FilterSeq(prevTasks, { t \in Range(prevTasks) : t.id = id })

\* deleteTask: prevTasks.filter((task) => task.id !== id)
deleteTask(prevTasks, id) ==
    FilterSeq(prevTasks, { t \in Range(prevTasks) : t.id # id })

\* ---------------------------------------------------------------- TaskItem
\* handleTaskComplete stamping completedAt on every call
taskCompleteUpdates_AlwaysStamps(completed, clock) ==
    [completed |-> completed, completedAt |-> Some(clock)]

\* the updates object handleTaskComplete passes to onUpdateTask
taskCompleteUpdates(completed, clock) ==
    [completed |-> completed,
     completedAt |-> IF completed THEN Some(clock) ELSE None]

\* the updates object handleSubtaskComplete passes to onUpdateTask
subtaskCompleteUpdates(task, subtaskId, completed, clock) ==
    LET updatedSubtasks ==
            [i \in 1..Len(task.subtasks) |->
                IF task.subtasks[i].id = subtaskId
                THEN Merge(task.subtasks[i], [completed |-> completed])
                ELSE task.subtasks[i]]
        allSubtasksCompleted == every(updatedSubtasks)
    IN  [subtasks |-> updatedSubtasks,
         completed |-> allSubtasksCompleted,
         completedAt |-> IF allSubtasksCompleted THEN Some(clock) ELSE None]

\* ------------------------------------------------------------------ state
NoOp == [op |-> "init", id |-> 0, sub |-> 0, completed |-> FALSE,
         accepted |-> FALSE]

\* AddTaskDialog as it is constructed: an empty form, no subtasks, no call
DialogClosed ==
    /\ description = ""
    /\ draftSubtasks = <<>>
    /\ isSuggesting = FALSE
    /\ request = None
    /\ draftNo = 1
    /\ toast = "none"

Init ==
    /\ tasks = <<>>
    /\ rendered = <<>>
    /\ nextId = 1
    /\ pending = 0
    /\ last = NoOp
    /\ stored = JSONstringify(<<>>)
    /\ reader = None
    /\ statusFilter = "active"
    /\ filteredTasks = <<>>
    /\ chartData = <<>>
    /\ dateNow = 0
    /\ DialogClosed
    /\ isMounted = TRUE
    /\ isLoaded = TRUE
    /\ spawned = [id \in 1..MaxId |-> 0]

\* AddTaskDialog.onSubmit for the values of one draft, with addTask
onSubmit(values) ==
    IF Rejected(values)
    THEN /\ last' = [NoOp EXCEPT !.op = "onSubmit"]
         /\ UNCHANGED <<tasks, rendered, nextId, pending>>
         /\ UNCHANGED <<stored, ioVars, viewVars,
                        dialogVars, mountVars, spawned>>
    ELSE \E n \in 0..MaxSubtasks :
         /\ nextId + n <= MaxId
         /\ pending < MaxBatch
         /\ pending' = pending + 1
         /\ tasks' = addTask(tasks,
                             Merge(values,
                                   [dueDate |-> finalDueDate(values),
                                    subtasks |-> finalSubtasks(n, nextId)]),
                             nextId + n)
         /\ nextId' = nextId + n + 1
         /\ last' = [NoOp EXCEPT !.op = "onSubmit", !.id = nextId + n,
                                 !.accepted = TRUE]
         /\ UNCHANGED rendered
         /\ UNCHANGED <<stored, ioVars, viewVars,
                        dialogVars, mountVars, spawned>>

\* the submit button of the add-task dialog
OnSubmit == \E values \in FormValues : onSubmit(values)

\* the history of spawns with one more for the task with this id; only the
\* tasks created in this run are counted
SpawnCounted(id) ==
    IF id \in DOMAIN spawned THEN [spawned EXCEPT ![id] = @ + 1] ELSE spawned

\* the history of spawns once the task with this id is deleted
SpawnForgotten(id) ==
    IF id \in DOMAIN spawned THEN [spawned EXCEPT ![id] = 0] ELSE spawned

\* the task checkbox of a mounted TaskItem: onCheckedChange hands over the
\* negation of the rendered checked={task.completed}
HandleTaskComplete ==
    \E k \in 1..Len(rendered), now \in Instants :
        LET task == rendered[k]
            completed == ~task.completed
            updates == taskCompleteUpdates(completed, now)
        IN  /\ drawsId(tasks, task.id, updates) => nextId <= MaxId
            /\ pending < MaxBatch
            /\ pending' = pending + 1
            /\ tasks' = updateTask(tasks, task.id, updates, nextId)
            /\ nextId' = IF drawsId(tasks, task.id, updates)
                         THEN nextId + 1 ELSE nextId
            /\ last' = [NoOp EXCEPT !.op = "handleTaskComplete",
                                    !.id = task.id, !.completed = completed]
            /\ spawned' = IF drawsId(tasks, task.id, updates)
                          THEN SpawnCounted(task.id) ELSE spawned
            /\ UNCHANGED rendered
            /\ UNCHANGED <<stored, ioVars, viewVars, dialogVars, mountVars>>

\* a subtask checkbox of a mounted TaskItem
HandleSubtaskComplete ==
    \E k \in 1..Len(rendered), now \in Instants :
        \E s \in 1..Len(rendered[k].subtasks) :
            LET task == rendered[k]
                subtaskId == task.subtasks[s].id
                completed == ~task.subtasks[s].completed
                updates == subtaskCompleteUpdates(task, subtaskId, completed,
                                                  now)
            IN  /\ drawsId(tasks, task.id, updates) => nextId <= MaxId
                /\ pending < MaxBatch
                /\ pending' = pending + 1
                /\ tasks' = updateTask(tasks, task.id, updates, nextId)
                /\ nextId' = IF drawsId(tasks, task.id, updates)
                             THEN nextId + 1 ELSE nextId
                /\ last' = [NoOp EXCEPT !.op = "handleSubtaskComplete",
                                        !.id = task.id, !.sub = subtaskId,
                                        !.completed = completed]
                /\ spawned' = IF drawsId(tasks, task.id, updates)
                              THEN SpawnCounted(task.id) ELSE spawned
                /\ UNCHANGED rendered
                /\ UNCHANGED <<stored, ioVars, viewVars, dialogVars, mountVars>>

\* the delete button of a mounted TaskItem
DeleteTask ==
    \E k \in 1..Len(rendered) :
        /\ pending < MaxBatch
        /\ pending' = pending + 1
        /\ tasks' = deleteTask(tasks, rendered[k].id)
        /\ last' = [NoOp EXCEPT !.op = "deleteTask", !.id = rendered[k].id]
        /\ spawned' = SpawnForgotten(rendered[k].id)
        /\ UNCHANGED <<rendered, nextId>>
        /\ UNCHANGED <<stored, ioVars, viewVars, dialogVars, mountVars>>

\* the render whose save effect leaves the item as it is
Render_SkipsWrite ==
    /\ pending > 0
    /\ rendered' = tasks
    /\ pending' = 0
    /\ last' = [NoOp EXCEPT !.op = "render"]
    /\ UNCHANGED <<tasks, nextId, stored>>
    /\ UNCHANGED <<ioVars, viewVars, dialogVars, mountVars, spawned>>

\* React commits the render that follows setTasks and runs the effect of
\* useLocalStorage that depends on storedValue: isMounted is true by then, and
\* the effect sets the item to JSON.stringify(storedValue)
Render ==
    /\ pending > 0
    /\ rendered' = tasks
    /\ pending' = 0
    /\ stored' = JSONstringify(tasks)
    /\ last' = [NoOp EXCEPT !.op = "render"]
    /\ UNCHANGED <<tasks, nextId>>
    /\ UNCHANGED <<ioVars, viewVars, dialogVars, mountVars, spawned>>

Next ==
    \/ OnSubmit
    \/ HandleTaskComplete
    \/ HandleSubtaskComplete
    \/ DeleteTask
    \/ Render

Spec == Init /\ [][Next]_vars

\* ------------------------------------------------- the drafts of the form
\* what the number inputs of the form hold once z.coerce.number() has taken
\* them: nothing, a negative number, zero, a positive number
DraftIntervals == {None, Some(0 - 1), Some(0), Some(1)}
DraftRepetitions == {None, Some(0 - 1), Some(0), Some(MaxRepetitions)}

\* the values formSchema lets through to onSubmit, of both types
DraftValues ==
    [title : {"t"}, type : {"daily", "scheduled"}, dueDate : FormDueDates,
     isRecurring : {FALSE}, recurringInterval : {None},
     recurringIntervalUnit : {None}, repetitions : {None}]
    \cup
    { v \in [title : {"t"}, type : {"daily", "scheduled"},
             dueDate : FormDueDates, isRecurring : {TRUE},
             recurringInterval : DraftIntervals,
             recurringIntervalUnit : FormUnits,
             repetitions : DraftRepetitions] :
        \* at most one recurrence input that is not a positive number or a unit
        (IF v.recurringInterval = Some(1) THEN 0 ELSE 1)
        + (IF v.recurringIntervalUnit = Some("days") THEN 0 ELSE 1)
        + (IF v.repetitions = Some(MaxRepetitions) THEN 0 ELSE 1) <= 1 }

\* the submit button of the add-task dialog, with one of DraftValues
SubmitDraft == \E values \in DraftValues : onSubmit(values)

NextForm ==
    \/ SubmitDraft
    \/ Render

SpecForm == Init /\ [][NextForm]_vars

\* ------------------------------------------------------------------ import
MaxImport == 2        \* most items of the array in an imported file

\* a task as exportTasks of an earlier session wrote it
ExportedTask ==
    JSONobject([id |-> 8, title |-> "t", type |-> "scheduled",
                dueDate |-> Some(1), isRecurring |-> FALSE,
                recurringInterval |-> None, recurringIntervalUnit |-> None,
                repetitions |-> None, completed |-> TRUE,
                completedAt |-> Some(1), subtasks |-> <<>>])

\* the items of the arrays in the files the user picks
ImportItems ==
    { [kind |-> "number", value |-> 5],
      [kind |-> "object", members |-> [title |-> "t"]],
      [kind |-> "object", members |-> [id |-> 7]],
      [kind |-> "object", members |-> [id |-> 7, title |-> "t"]],
      ExportedTask }

\* the result of reader.readAsText(file) for the files the user picks
ImportTexts ==
    { Malformed, NoText, JSONnull,
      [kind |-> "object", members |-> [id |-> 7, title |-> "t"]] }
    \cup
    { [kind |-> "array", items |-> items] :
        items \in UNION { [1..n -> ImportItems] : n \in 0..MaxImport } }

\* the test of importTasks that lets every array with an id in each item pass
importAccepts_IdOnly(text) ==
    /\ text.kind = "array"
    /\ \A i \in 1..Len(text.items) :
          /\ text.items[i].kind = "object"
          /\ "id" \in DOMAIN text.items[i].members

\* importTasks: JSON.parse returns, the value is an array, and 'id' in task
\* && 'title' in task holds of every item; JSON.parse throws on a malformed
\* text and the in operator throws on an item that is not an object, and the
\* catch block takes both
importAccepts(text) ==
    /\ text.kind = "array"
    /\ \A i \in 1..Len(text.items) :
          /\ text.items[i].kind = "object"
          /\ "id" \in DOMAIN text.items[i].members
          /\ "title" \in DOMAIN text.items[i].members

\* setTasks putting the imported tasks behind those of the collection
importedTasks_Merges(prevTasks, text) == prevTasks \o JSONparse(text)

\* setTasks(tasksToImport): the state is replaced
importedTasks(prevTasks, text) == JSONparse(text)

InitImport ==
    /\ tasks \in
          { <<>>,
            addTask(<<>>, [title |-> "t", type |-> "scheduled",
                           dueDate |-> Some(1), isRecurring |-> FALSE,
                           recurringInterval |-> None,
                           recurringIntervalUnit |-> None,
                           repetitions |-> None, subtasks |-> <<>>], 1),
            addTask(addTask(<<>>, [title |-> "t", type |-> "scheduled",
                                   dueDate |-> Some(1), isRecurring |-> FALSE,
                                   recurringInterval |-> None,
                                   recurringIntervalUnit |-> None,
                                   repetitions |-> None, subtasks |-> <<>>], 1),
                    [title |-> "t", type |-> "daily", dueDate |-> None,
                     isRecurring |-> TRUE, recurringInterval |-> Some(1),
                     recurringIntervalUnit |-> Some("days"),
                     repetitions |-> Some(MaxRepetitions),
                     subtasks |-> finalSubtasks(1, 2)], 3) }
    /\ rendered = tasks
    /\ stored = JSONstringify(tasks)
    /\ nextId = 4
    /\ pending = 0
    /\ last = NoOp
    /\ reader = None
    /\ statusFilter = "active"
    /\ filteredTasks = <<>>
    /\ chartData = <<>>
    /\ dateNow = 0
    /\ DialogClosed
    /\ isMounted = TRUE
    /\ isLoaded = TRUE
    /\ spawned = [id \in 1..MaxId |-> 0]

\* importTasks: reader.readAsText(file) starts for the file the user picked,
\* whose text the reader will hand to onload
importTasks(text) ==
    /\ reader = None
    /\ reader' = Some(text)
    /\ last' = [NoOp EXCEPT !.op = "importTasks"]
    /\ UNCHANGED <<tasks, rendered, nextId, pending, stored, viewVars,
                   dialogVars, mountVars, spawned>>

\* the import button, with one of the files of ImportTexts
ImportTasks == \E text \in ImportTexts : importTasks(text)

\* reader.onload
ReaderOnload ==
    /\ reader # None
    /\ reader' = None
    /\ LET text == reader[1]
       IN  IF text # NoText /\ importAccepts(text)
           THEN /\ pending < MaxBatch
                /\ pending' = pending + 1
                /\ tasks' = importedTasks(tasks, text)
                /\ last' = [NoOp EXCEPT !.op = "readerOnload",
                                        !.accepted = TRUE]
           ELSE /\ last' = [NoOp EXCEPT !.op = "readerOnload"]
                /\ UNCHANGED <<tasks, pending>>
    /\ UNCHANGED <<rendered, nextId, stored, viewVars,
                   dialogVars, mountVars, spawned>>

\* the read fails: importTasks sets no onerror handler
ReaderError ==
    /\ reader # None
    /\ reader' = None
    /\ last' = [NoOp EXCEPT !.op = "readerError"]
    /\ UNCHANGED <<tasks, rendered, nextId, pending, stored, viewVars,
                   dialogVars, mountVars, spawned>>

NextImport ==
    \/ ImportTasks
    \/ ReaderOnload
    \/ ReaderError
    \/ Render

SpecImport == InitImport /\ [][NextImport]_vars

\* ------------------------------------------------------- the stored item
MaxStored == 1        \* most tasks in the item the page loads at its start

\* a task an earlier session left in the item, at position i: its
\* identifiers are none of those uuidv4() returns in this session
StoredTask(i, shape) ==
    [id |-> 0 - i, title |-> "t", type |-> shape.type,
     dueDate |-> IF shape.type = "scheduled" THEN Some(1) ELSE None,
     isRecurring |-> shape.recurs,
     recurringInterval |-> IF shape.recurs THEN Some(1) ELSE None,
     recurringIntervalUnit |-> IF shape.recurs THEN Some("days") ELSE None,
     repetitions |-> IF shape.recurs THEN Some(MaxRepetitions) ELSE None,
     completed |-> shape.done,
     completedAt |-> IF shape.done THEN Some(1) ELSE None,
     subtasks |-> [k \in 1..shape.subs |->
                      [id |-> 0 - MaxStored - i, title |-> "s",
                       completed |-> shape.done]]]

\* daily tasks that do not recur and have no subtask, scheduled ones that
\* recur and have one; open and completed
StoredShapes ==
    [type : {"daily"}, recurs : {FALSE}, done : BOOLEAN, subs : {0}]
    \cup [type : {"scheduled"}, recurs : {TRUE}, done : BOOLEAN, subs : {1}]

\* the collections the load effect of useLocalStorage finds in the item
StoredCollections ==
    UNION { { [i \in 1..n |-> StoredTask(i, shapes[i])] :
                shapes \in [1..n -> StoredShapes] } : n \in 0..MaxStored }

\* the files the user imports: one that is no JSON and one an earlier
\* exportTasks wrote
StoreTexts ==
    { Malformed,
      JSONstringify(<<StoredTask(1, [type |-> "scheduled", recurs |-> TRUE,
                                     done |-> FALSE, subs |-> 1])>>) }

\* the page after its mount: the load effect has put the item's collection
\* into tasks and the save effect has written it back; of the identifiers of
\* this run uuidv4() has the last one left to return
InitStore ==
    /\ tasks \in StoredCollections
    /\ rendered = tasks
    /\ stored = JSONstringify(tasks)
    /\ nextId = MaxId
    /\ pending = 0
    /\ last = NoOp
    /\ reader = None
    /\ statusFilter = "active"
    /\ filteredTasks = <<>>
    /\ chartData = <<>>
    /\ dateNow = 0
    /\ DialogClosed
    /\ isMounted = TRUE
    /\ isLoaded = TRUE
    /\ spawned = [id \in 1..MaxId |-> 0]

\* the import button, with one of the files of StoreTexts
ImportStoredTasks == \E text \in StoreTexts : importTasks(text)

NextStore ==
    \/ OnSubmit
    \/ HandleTaskComplete
    \/ HandleSubtaskComplete
    \/ DeleteTask
    \/ ImportStoredTasks
    \/ ReaderOnload
    \/ ReaderError
    \/ Render

\* React runs every render it has scheduled, and the effects of the render
\* with it
SpecStore == InitStore /\ [][NextStore]_vars /\ WF_vars(Render)

\* -------------------------------------------------------------- the views
MaxViewTasks == 3     \* most tasks of a collection the views are computed of
DayLength == 2        \* instants in one calendar day
DaysBack == 6         \* subDays(new Date(), 6)

\* startOfDay: the calendar day of an instant
DayOf(t) == t \div DayLength

\* the instant of the renders: the second instant of its day
ViewNow == (DaysBack + 2) * DayLength + 1

StatusFilters == {"all", "active", "overdue", "completed"}

\* the due dates of the tasks: the calendar of the form offers no day before
\* today, so every due date is an instant after the epoch
ViewDueDates == {None, Some(ViewNow - 1), Some(ViewNow)}

\* the last instant before the window of the chart, the first one in it,
\* and now
ViewCompletedAts ==
    { None,
      Some((DayOf(ViewNow) - DaysBack) * DayLength - 1),
      Some((DayOf(ViewNow) - DaysBack) * DayLength),
      Some(ViewNow) }

\* the task at position i of a collection, with its completed, completedAt
\* and dueDate
ViewTask(i, shape) ==
    [id |-> i, title |-> "t",
     type |-> IF shape.dueDate = None THEN "daily" ELSE "scheduled",
     dueDate |-> shape.dueDate, isRecurring |-> FALSE,
     recurringInterval |-> None, recurringIntervalUnit |-> None,
     repetitions |-> None, completed |-> shape.completed,
     completedAt |-> shape.completedAt, subtasks |-> <<>>]

\* every due date on a task that is open and on one completed now, every
\* completedAt on a completed task without due date, and an open task that
\* kept a completedAt
ViewShapes ==
    [completed : {FALSE}, completedAt : {None}, dueDate : ViewDueDates]
    \cup [completed : {TRUE}, completedAt : {Some(ViewNow)},
          dueDate : ViewDueDates]
    \cup [completed : {TRUE}, completedAt : ViewCompletedAts, dueDate : {None}]
    \cup [completed : {FALSE},
          completedAt : {Some((DayOf(ViewNow) - DaysBack) * DayLength)},
          dueDate : {None}]

ViewCollections ==
    UNION { { [i \in 1..n |-> ViewTask(i, shapes[i])] :
                shapes \in [1..n -> ViewShapes] } : n \in 0..MaxViewTasks }

\* isPast of date-fns, taken at or before the instant
isPast_OrNow(date, clock) == date <= clock

\* isPast of date-fns: the date is before Date.now()
isPast(date, clock) == date < clock

\* the filter whose overdue branch does not test !task.completed
filterFn_OverdueAnyStatus(task, filter, clock) ==
    IF filter = "completed" THEN task.completed
    ELSE IF filter = "active" THEN ~task.completed
    ELSE IF filter = "overdue"
         THEN /\ task.dueDate # None
              /\ isPast(task.dueDate[1], clock)
         ELSE TRUE

\* the callback of tasks.filter in filteredTasks
filterFn(task, filter, clock) ==
    IF filter = "completed" THEN task.completed
    ELSE IF filter = "active" THEN ~task.completed
    ELSE IF filter = "overdue"
         THEN /\ ~task.completed
              /\ task.dueDate # None
              /\ isPast(task.dueDate[1], clock)
         ELSE TRUE

\* new Date(dueDate || 0).getTime()
getTime(dueDate) == IF dueDate = None THEN 0 ELSE dueDate[1]

\* the comparator with the due dates ascending
compareFn_Ascending(a, b) ==
    LET byCompleted == (IF a.completed THEN 1 ELSE -1)
                       - (IF b.completed THEN 1 ELSE -1)
    IN  IF byCompleted # 0 THEN byCompleted
        ELSE getTime(a.dueDate) - getTime(b.dueDate)

\* the comparator handed to sort: x || y is y when x is 0
compareFn(a, b) ==
    LET byCompleted == (IF a.completed THEN 1 ELSE -1)
                       - (IF b.completed THEN 1 ELSE -1)
    IN  IF byCompleted # 0 THEN byCompleted
        ELSE getTime(b.dueDate) - getTime(a.dueDate)

RECURSIVE insert_BeforeEqual(_, _)
\* the insertion that puts x before the elements it compares equal to
insert_BeforeEqual(x, s) ==
    IF s = <<>> THEN <<x>>
    ELSE IF compareFn(Head(s), x) >= 0 THEN <<x>> \o s
         ELSE <<Head(s)>> \o insert_BeforeEqual(x, Tail(s))

RECURSIVE insert(_, _)
\* x put into the sorted s behind every element that does not compare
\* greater than x
insert(x, s) ==
    IF s = <<>> THEN <<x>>
    ELSE IF compareFn(Head(s), x) > 0 THEN <<x>> \o s
         ELSE <<Head(s)>> \o insert(x, Tail(s))

RECURSIVE sort(_)
\* Array.prototype.sort with compareFn: a stable sort (ECMAScript 2019), here
\* by insertion of each element, in array order, into the sorted ones before
sort(s) ==
    IF s = <<>> THEN <<>>
    ELSE insert(s[Len(s)], sort(SubSeq(s, 1, Len(s) - 1)))

\* the value of the memo filteredTasks
filteredTasksOf(ts, filter, clock) ==
    sort(FilterSeq(ts, { t \in Range(ts) : filterFn(t, filter, clock) }))

\* the memo computed with sort called on tasks itself: the array is sorted
\* in place
memoFilteredTasks_SortsTasks(ts, filter, clock) ==
    [tasks |-> sort(ts), filteredTasks |-> filteredTasksOf(ts, filter, clock)]

\* the arrays after the memo ran: filter returns a new array and sort sorts
\* that array in place, the array in tasks is only read
memoFilteredTasks(ts, filter, clock) ==
    [tasks |-> ts, filteredTasks |-> filteredTasksOf(ts, filter, clock)]

\* isSameDay of date-fns
isSameDay(date, day) == DayOf(date) = day

\* the count of a day with every task counted that has a completedAt on it
completedOn_AnyCompletedAt(ts, day) ==
    Len(FilterSeq(ts, { t \in Range(ts) :
                          /\ t.completedAt # None
                          /\ isSameDay(t.completedAt[1], day) }))

\* completedTasks.length for one day of the chart
completedOn(ts, day) ==
    Len(FilterSeq(ts, { t \in Range(ts) :
                          /\ t.completed
                          /\ t.completedAt # None
                          /\ isSameDay(t.completedAt[1], day) }))

\* eachDayOfInterval({ start: subDays(new Date(), 6), end: new Date() })
last7Days(clock) == [i \in 1..(DaysBack + 1) |-> DayOf(clock) - DaysBack + i - 1]

\* the value of the memo chartData
chartDataOf(ts, clock) ==
    [i \in 1..(DaysBack + 1) |->
        [date |-> last7Days(clock)[i],
         completed |-> completedOn(ts, last7Days(clock)[i])]]

\* the page after its first render, on the dashboard tab with the filter
\* 'active'; the analytics tab is not mounted
InitView ==
    /\ tasks \in ViewCollections
    /\ rendered = tasks
    /\ stored = JSONstringify(tasks)
    /\ nextId = 1
    /\ pending = 0
    /\ last = NoOp
    /\ reader = None
    /\ dateNow = ViewNow
    /\ statusFilter = "active"
    /\ filteredTasks = filteredTasksOf(tasks, "active", dateNow)
    /\ chartData = <<>>
    /\ DialogClosed
    /\ isMounted = TRUE
    /\ isLoaded = TRUE
    /\ spawned = [id \in 1..MaxId |-> 0]

\* TaskFilters: onFilterChange={setStatusFilter}, and the render after it
SetStatusFilter ==
    \E filter \in StatusFilters :
        /\ statusFilter' = filter
        /\ filteredTasks' = memoFilteredTasks(tasks, filter, dateNow).filteredTasks
        /\ tasks' = memoFilteredTasks(tasks, filter, dateNow).tasks
        /\ UNCHANGED <<rendered, nextId, pending, last, stored, ioVars,
                       chartData, dateNow, dialogVars, mountVars, spawned>>

\* the analytics tab is selected and AnalyticsDashboard renders
ShowAnalytics ==
    /\ chartData' = chartDataOf(tasks, dateNow)
    /\ UNCHANGED <<tasks, rendered, nextId, pending, last, stored, ioVars,
                   statusFilter, filteredTasks, dateNow, dialogVars,
                   mountVars, spawned>>

NextView ==
    \/ SetStatusFilter
    \/ ShowAnalytics

SpecView == InitView /\ [][NextView]_vars

\* ----------------------------------------------------------- AddTaskDialog
\* the description field: left empty, or filled in
Descriptions == {"", "d"}

\* what the suggestSubtasks flow does with a description: it throws, or it
\* returns its list of subtask titles, which may be empty
FlowResults ==
    { [throws |-> TRUE, subtasks |-> None],
      [throws |-> FALSE, subtasks |-> Some(<<>>)],
      [throws |-> FALSE, subtasks |-> Some(<<"a">>)] }

\* getAISubtaskSuggestions: { subtasks } of the flow, or { error }
getAISubtaskSuggestions(taskDescription, flow) ==
    IF taskDescription = ""
    THEN [subtasks |-> None, error |-> Some("Task description cannot be empty.")]
    ELSE IF flow.throws
         THEN [subtasks |-> None,
               error |-> Some("Failed to generate subtasks. Please try again.")]
         ELSE [subtasks |-> flow.subtasks, error |-> None]

\* if (result.subtasks): an array is truthy, the empty one included
Truthy(opt) == opt # None

\* subtasks.map((title) => ({ id: uuidv4(), title, completed: false }))
titledSubtasks(titles, firstId) ==
    [i \in 1..Len(titles) |->
        [id |-> firstId + i - 1, title |-> titles[i], completed |-> FALSE]]

\* the drafts the dialog submits: a scheduled task with or without a due date
DialogValues == { v \in FormValues : ~v.isRecurring }

\* the user types in the description field
SetDescription ==
    \E d \in Descriptions :
        /\ description' = d
        /\ toast' = "none"
        /\ last' = [NoOp EXCEPT !.op = "setDescription"]
        /\ UNCHANGED <<tasks, rendered, nextId, pending, stored, ioVars,
                       viewVars, mountVars, spawned>>
        /\ UNCHANGED <<draftSubtasks, isSuggesting, request, draftNo>>

\* handleAddSubtask with a title typed into the subtask input
HandleAddSubtask ==
    /\ Len(draftSubtasks) < MaxSubtasks
    /\ draftSubtasks' = Append(draftSubtasks, "s")
    /\ toast' = "none"
    /\ last' = [NoOp EXCEPT !.op = "handleAddSubtask"]
    /\ UNCHANGED <<tasks, rendered, nextId, pending, stored, ioVars, viewVars,
                   mountVars, spawned>>
    /\ UNCHANGED <<description, isSuggesting, request, draftNo>>

\* handleRemoveSubtask(index)
HandleRemoveSubtask ==
    \E index \in 1..Len(draftSubtasks) :
        /\ draftSubtasks' = [i \in 1..(Len(draftSubtasks) - 1) |->
                                IF i < index THEN draftSubtasks[i]
                                             ELSE draftSubtasks[i + 1]]
        /\ toast' = "none"
        /\ last' = [NoOp EXCEPT !.op = "handleRemoveSubtask"]
        /\ UNCHANGED <<tasks, rendered, nextId, pending, stored, ioVars,
                       viewVars, mountVars, spawned>>
        /\ UNCHANGED <<description, isSuggesting, request, draftNo>>

\* handleSuggestSubtasks up to its await; the button is disabled while
\* isSuggesting
HandleSuggestSubtasks ==
    /\ ~isSuggesting
    /\ IF description = ""
       THEN /\ toast' = "Description needed"
            /\ UNCHANGED <<isSuggesting, request>>
       ELSE /\ isSuggesting' = TRUE
            /\ \E flow \in FlowResults :
                   request' = Some([draft |-> draftNo,
                                    description |-> description,
                                    flow |-> flow])
            /\ toast' = "none"
    /\ last' = [NoOp EXCEPT !.op = "handleSuggestSubtasks"]
    /\ UNCHANGED <<tasks, rendered, nextId, pending, stored, ioVars, viewVars,
                   mountVars, spawned>>
    /\ UNCHANGED <<description, draftSubtasks, draftNo>>

\* handleSuggestSubtasks from its await on: the call has returned its result
SuggestionsReturn ==
    /\ request # None
    /\ LET result == getAISubtaskSuggestions(request[1].description,
                                             request[1].flow)
       IN  IF Truthy(result.subtasks)
           THEN /\ Len(draftSubtasks) + Len(result.subtasks[1]) <= MaxSubtasks
                /\ draftSubtasks' = draftSubtasks \o result.subtasks[1]
                /\ toast' = "none"
           ELSE /\ toast' = "Error"
                /\ UNCHANGED draftSubtasks
    /\ isSuggesting' = FALSE
    /\ request' = None
    /\ last' = [NoOp EXCEPT !.op = "suggestionsReturn"]
    /\ UNCHANGED <<tasks, rendered, nextId, pending, stored, ioVars, viewVars,
                   mountVars, spawned>>
    /\ UNCHANGED <<description, draftNo>>

\* the awaited call rejects: the server action could not be reached, and
\* handleSuggestSubtasks ends at its await
SuggestionsReject ==
    /\ request # None
    /\ request' = None
    /\ toast' = "none"
    /\ last' = [NoOp EXCEPT !.op = "suggestionsReject"]
    /\ UNCHANGED <<tasks, rendered, nextId, pending, stored, ioVars, viewVars,
                   mountVars, spawned>>
    /\ UNCHANGED <<description, draftSubtasks, isSuggesting, draftNo>>

\* AddTaskDialog.onSubmit with the subtasks of the dialog, then form.reset()
\* and setSubtasks([]): the next draft begins
DialogSubmit ==
    \E values \in DialogValues :
        IF Rejected(values)
        THEN /\ last' = [NoOp EXCEPT !.op = "onSubmit"]
             /\ toast' = "none"
             /\ UNCHANGED <<tasks, rendered, nextId, pending, stored, ioVars,
                            viewVars, mountVars, spawned>>
             /\ UNCHANGED <<description, draftSubtasks, isSuggesting, request,
                            draftNo>>
        ELSE LET n == Len(draftSubtasks)
             IN  /\ nextId + n <= MaxId
                 /\ pending < MaxBatch
                 /\ pending' = pending + 1
                 /\ tasks' = addTask(tasks,
                                     Merge(values,
                                           [dueDate |-> finalDueDate(values),
                                            subtasks |->
                                                titledSubtasks(draftSubtasks,
                                                               nextId)]),
                                     nextId + n)
                 /\ nextId' = nextId + n + 1
                 /\ toast' = "Task added"
                 /\ description' = ""
                 /\ draftSubtasks' = <<>>
                 /\ draftNo' = draftNo + 1
                 /\ last' = [NoOp EXCEPT !.op = "onSubmit", !.id = nextId + n,
                                         !.accepted = TRUE]
                 /\ UNCHANGED <<rendered, stored, ioVars,
                                viewVars, mountVars, spawned>>
                 /\ UNCHANGED <<isSuggesting, request>>

NextDialog ==
    \/ SetDescription
    \/ HandleAddSubtask
    \/ HandleRemoveSubtask
    \/ HandleSuggestSubtasks
    \/ SuggestionsReturn
    \/ SuggestionsReject
    \/ DialogSubmit
    \/ Render

SpecDialog == Init /\ [][NextDialog]_vars

\* ---------------------------------------------------- useLocalStorage start
\* what window.localStorage holds under 'tasks' when the page starts: no
\* item, a text that is no JSON, or the collection an earlier run wrote
StartItems ==
    {NoText, Malformed} \cup { JSONstringify(ts) : ts \in StoredCollections }

\* item ? JSON.parse(item) : stableInitialValue, and stableInitialValue from
\* the catch
loadedValue(item, stableInitialValue) ==
    IF item = NoText \/ item = Malformed THEN stableInitialValue
    ELSE JSONparse(item)

\* the page after its first render: tasks is the initialValue [], isMounted
\* is false and no effect has run
InitStart ==
    /\ tasks = <<>>
    /\ rendered = <<>>
    /\ stored \in StartItems
    /\ nextId = MaxId
    /\ pending = 0
    /\ last = NoOp
    /\ reader = None
    /\ statusFilter = "active"
    /\ filteredTasks = <<>>
    /\ chartData = <<>>
    /\ dateNow = 0
    /\ DialogClosed
    /\ isMounted = FALSE
    /\ isLoaded = FALSE
    /\ spawned = [id \in 1..MaxId |-> 0]

\* the effects of the first commit: setIsMounted(true); the load and the save
\* effect find isMounted false and do nothing
MountEffects ==
    /\ ~isMounted
    /\ isMounted' = TRUE
    /\ last' = [NoOp EXCEPT !.op = "mount"]
    /\ UNCHANGED <<tasks, rendered, nextId, pending, stored, ioVars, viewVars,
                   dialogVars, isLoaded, spawned>>

\* the effects of the commit that rendered isMounted true, in their order:
\* the load effect reads the item and calls setStoredValue, the save effect
\* writes the storedValue of this render; a storedValue that is the same
\* array schedules no render
MountedEffects ==
    /\ isMounted
    /\ ~isLoaded
    /\ tasks' = loadedValue(stored, tasks)
    /\ pending' = IF stored = NoText \/ stored = Malformed
                  THEN pending ELSE pending + 1
    /\ stored' = JSONstringify(rendered)
    /\ isLoaded' = TRUE
    /\ last' = [NoOp EXCEPT !.op = "load"]
    /\ UNCHANGED <<rendered, nextId, ioVars, viewVars, dialogVars, isMounted,
                   spawned>>

NextStart ==
    \/ MountEffects
    \/ MountedEffects
    \/ (isLoaded /\ OnSubmit)
    \/ (isLoaded /\ HandleTaskComplete)
    \/ (isLoaded /\ HandleSubtaskComplete)
    \/ (isLoaded /\ DeleteTask)
    \/ Render

SpecStart == InitStart /\ [][NextStart]_vars

\* ----------------------------------------------------------------- claims
UpdateOps == {"handleTaskComplete", "handleSubtaskComplete"}

TaskIds(ts) == { ts[i].id : i \in 1..Len(ts) }

\* the task with the given id, for an id that findIndex finds
TaskOf(ts, id) == ts[findIndex(ts, id)]

\* the step is an update of a task of the collection that takes its
\* completed flag from false to true
Completes ==
    /\ last'.op \in UpdateOps
    /\ findIndex(tasks, last'.id) # 0
    /\ ~TaskOf(tasks, last'.id).completed
    /\ tasks'[findIndex(tasks, last'.id)].completed

\* the repetitions of a recurring task, 0 for a task that does not recur
RepetitionsOf(t) ==
    IF t.isRecurring /\ t.repetitions # None THEN t.repetitions[1] ELSE 0

\* C1: every task with at least one subtask is completed exactly when all of
\* its subtasks are completed.
C1_CompletionInvariant ==
    \A i \in 1..Len(tasks) :
        Len(tasks[i].subtasks) > 0 =>
            (tasks[i].completed <=> every(tasks[i].subtasks))

\* C2: every task of the collection is completed exactly when its completedAt
\* is set.
C2_CompletedAtConsistency ==
    \A i \in 1..Len(tasks) :
        tasks[i].completed <=> (tasks[i].completedAt # None)

\* a task was checked and then unchecked again, next to a completed one
C2_Witness ==
    /\ last.op = "handleTaskComplete"
    /\ ~last.completed
    /\ \E i \in 1..Len(tasks) :
          /\ tasks[i].id = last.id
          /\ ~tasks[i].completed
          /\ tasks[i].completedAt = None
    /\ \E j \in 1..Len(tasks) : tasks[j].completed

\* C3: update(id, {completed: true}) on a task that is already completed
\* spawns no successor: the collection keeps its length.
C3_IdempotentRecompletion ==
    \A i \in 1..Len(tasks) :
        tasks[i].completed =>
            Len(updateTask(tasks, tasks[i].id, [completed |-> TRUE], nextId))
                = Len(tasks)

\* C4: an update that completes a recurring task with repetitions n > 1
\* appends exactly one task, whose id is fresh, whose repetitions are n - 1,
\* which is not completed, has no completedAt, has every subtask reset, and
\* has every other field of the original.
C4_RecurrenceSpawn ==
    [][ (Completes /\ RepetitionsOf(TaskOf(tasks, last'.id)) > 1) =>
            LET original == TaskOf(tasks, last'.id)
                successor == tasks'[Len(tasks')]
            IN  /\ Len(tasks') = Len(tasks) + 1
                /\ successor.id \notin TaskIds(tasks)
                /\ successor.repetitions = Some(RepetitionsOf(original) - 1)
                /\ ~successor.completed
                /\ successor.completedAt = None
                /\ Len(successor.subtasks) = Len(original.subtasks)
                /\ \A k \in 1..Len(successor.subtasks) :
                      /\ ~successor.subtasks[k].completed
                      /\ successor.subtasks[k].title = original.subtasks[k].title
                /\ DOMAIN successor = DOMAIN original
                /\ \A f \in (DOMAIN original) \ {"id", "completed", "completedAt",
                                                "repetitions", "subtasks"} :
                      successor[f] = original[f]
      ]_vars

\* the last handler completed a recurring task that has a subtask, and its
\* successor stands at the end of the collection
C4_Witness ==
    /\ last.op \in UpdateOps
    /\ Len(tasks) >= 2
    /\ tasks[Len(tasks)].id = nextId - 1
    /\ tasks[Len(tasks)].repetitions = Some(MaxRepetitions - 1)
    /\ Len(tasks[Len(tasks)].subtasks) > 0
    /\ \E i \in 1..(Len(tasks) - 1) :
          /\ tasks[i].id = last.id
          /\ tasks[i].completed
          /\ tasks[i].isRecurring

\* C5: an update that completes a recurring task with repetitions n > 0 leaves
\* that task in the collection, completed, with repetitions n - 1.
C5_InPlaceDecrement ==
    [][ (Completes /\ RepetitionsOf(TaskOf(tasks, last'.id)) > 0) =>
            LET updated == tasks'[findIndex(tasks, last'.id)]
            IN  /\ updated.id = last'.id
                /\ updated.completed
                /\ updated.repetitions =
                      Some(RepetitionsOf(TaskOf(tasks, last'.id)) - 1)
      ]_vars

\* C6: an update that completes a recurring task with repetitions 1 adds no
\* task to the collection.
C6_Exhaustion ==
    [][ (Completes /\ RepetitionsOf(TaskOf(tasks, last'.id)) = 1) =>
            Len(tasks') = Len(tasks)
      ]_vars

\* the successor of a completed task was completed in its turn, with an
\* identifier still to be had, and the collection holds the two of them
C6_Witness ==
    /\ last.op \in UpdateOps
    /\ last.completed
    /\ nextId <= MaxId
    /\ Len(tasks) = 2
    /\ tasks[1].completed
    /\ tasks[2].id = last.id
    /\ tasks[2].completed
    /\ tasks[2].isRecurring
    /\ tasks[2].repetitions = Some(1)

\* C7: the task ids of the collection are pairwise distinct, and so are the
\* subtask ids of all its tasks.
C7_IdUniqueness ==
    /\ \A i, j \in 1..Len(tasks) : tasks[i].id = tasks[j].id => i = j
    /\ \A i, j \in 1..Len(tasks) :
          \A k \in 1..Len(tasks[i].subtasks), l \in 1..Len(tasks[j].subtasks) :
              tasks[i].subtasks[k].id = tasks[j].subtasks[l].id
                  => (i = j /\ k = l)

\* C8: an update whose id is not in the collection leaves the collection as
\* it is.
C8_NotFoundUpdate ==
    [][ (last'.op \in UpdateOps /\ findIndex(tasks, last'.id) = 0) =>
            tasks' = tasks
      ]_vars

\* a checkbox of a deleted task was ticked while other tasks remain, one of
\* them recurring
C8_Witness ==
    /\ last.op \in UpdateOps
    /\ last.completed
    /\ last.id \notin TaskIds(tasks)
    /\ \E i \in 1..Len(tasks) : tasks[i].isRecurring

\* C9: delete(id) removes the tasks with that id and keeps every other task,
\* unchanged and in the same order; without such a task nothing changes.
C9_Delete ==
    [][ (last'.op = "deleteTask") =>
            LET kept == { i \in 1..Len(tasks) : tasks[i].id # last'.id }
            IN  /\ Len(tasks') = Cardinality(kept)
                /\ \A i \in kept :
                      tasks'[Cardinality({ j \in kept : j <= i })] = tasks[i]
                /\ (last'.id \notin TaskIds(tasks)) => tasks' = tasks
      ]_vars

\* the task between two others was deleted
C9_Witness ==
    /\ last.op = "deleteTask"
    /\ Len(tasks) = 2
    /\ tasks[1].id < last.id
    /\ last.id < tasks[2].id

\* C10: an accepted submit appends exactly one task, with an id no task and
\* no subtask had before, not completed and without completedAt, behind the
\* unchanged tasks of the collection.
C10_Create ==
    [][ (last'.op = "onSubmit" /\ last'.accepted) =>
            LET created == tasks'[Len(tasks')]
            IN  /\ Len(tasks') = Len(tasks) + 1
                /\ SubSeq(tasks', 1, Len(tasks)) = tasks
                /\ created.id = last'.id
                /\ created.id \notin TaskIds(tasks)
                /\ \A i \in 1..Len(tasks') :
                      \A k \in 1..Len(tasks'[i].subtasks) :
                          tasks'[i].subtasks[k].id # created.id
                /\ ~created.completed
                /\ created.completedAt = None
      ]_vars

\* a draft with a subtask was submitted into a collection that held tasks
C10_Witness ==
    /\ last.op = "onSubmit"
    /\ last.accepted
    /\ Len(tasks) >= 2
    /\ tasks[Len(tasks)].id = last.id
    /\ Len(tasks[Len(tasks)].subtasks) > 0

\* the text denotes an array in which every item is an object that has an id
\* and a title
WellFormedImport(text) ==
    /\ text.kind = "array"
    /\ \A i \in 1..Len(text.items) :
          /\ text.items[i].kind = "object"
          /\ {"id", "title"} \subseteq DOMAIN text.items[i].members

\* the value read from the field of a task in memory
Read(t, f) == IF f \in OptionalFields THEN t[f][1] ELSE t[f]

\* C11: an import that fails, because the file cannot be read, its text is
\* no JSON, the document is no array or an item lacks id or title, leaves the
\* collection exactly as it was, so that an export gives the same text as
\* before, and calls setTasks not at all.
C11_ImportAtomicity ==
    [][ (/\ reader # None
         /\ last'.op \in {"readerOnload", "readerError"}
         /\ \/ last'.op = "readerError"
            \/ reader[1] \in {Malformed, NoText}
            \/ ~WellFormedImport(reader[1]))
        => /\ tasks' = tasks
           /\ JSONstringify(tasks') = JSONstringify(tasks)
           /\ pending' = pending
           /\ ~last'.accepted
      ]_vars

\* an import failed while the collection held two tasks
C11_Witness ==
    /\ last.op = "readerOnload"
    /\ ~last.accepted
    /\ reader = None
    /\ Len(tasks) = 2
    /\ tasks[2].isRecurring

\* C12: reader.onload accepts the text exactly when it denotes an array in
\* which every item has an id and a title; the collection is then the
\* imported array, item for item and member for member, with no member and
\* no task besides.
C12_ImportAcceptance ==
    [][ (reader # None /\ last'.op = "readerOnload") =>
            /\ last'.accepted <=>
                  (reader[1] \notin {Malformed, NoText}
                   /\ WellFormedImport(reader[1]))
            /\ last'.accepted =>
                  /\ Len(tasks') = Len(reader[1].items)
                  /\ \A i \in 1..Len(tasks') :
                        LET members == reader[1].items[i].members
                        IN  /\ DOMAIN members \subseteq DOMAIN tasks'[i]
                            /\ \A f \in DOMAIN tasks'[i] :
                                  IF f \in DOMAIN members
                                  THEN Read(tasks'[i], f) = members[f]
                                  ELSE tasks'[i][f] = None
      ]_vars

\* an array of one item that has an id and a title and nothing else took the
\* place of a collection of two tasks
C12_Witness ==
    /\ last.op = "readerOnload"
    /\ last.accepted
    /\ Len(rendered) = 2
    /\ Len(tasks) = 1
    /\ tasks[1].id = 7
    /\ "completed" \notin DOMAIN tasks[1]

\* C13: JSON.parse of JSON.stringify(tasks), as the load effect and
\* importTasks read it, is the collection itself: the same tasks in the same
\* order, each with every field at its value and every unset field unset.
C13_RoundTrip ==
    /\ JSONstringify(tasks).kind = "array"
    /\ JSONparse(JSONstringify(tasks)) = tasks

\* the item holds a daily task from an earlier session with dueDate,
\* completedAt and the recurrence fields unset, and a task created and
\* completed in this one
C13_Witness ==
    /\ Len(tasks) = 2
    /\ tasks[1].dueDate = None
    /\ tasks[1].completedAt = None
    /\ tasks[1].repetitions = None
    /\ tasks[1].recurringInterval = None
    /\ tasks[2].completedAt # None
    /\ tasks[2].dueDate # None
    /\ stored = JSONstringify(tasks)

Selected ==
    { k \in 1..Len(tasks) :
        CASE statusFilter = "all" -> TRUE
          [] statusFilter = "active" -> ~tasks[k].completed
          [] statusFilter = "completed" -> tasks[k].completed
          [] statusFilter = "overdue" ->
                /\ ~tasks[k].completed
                /\ tasks[k].dueDate # None
                /\ tasks[k].dueDate[1] < dateNow }

\* C14: the displayed list holds exactly the selected tasks of the
\* collection, each once and as it is in the collection: all of them under
\* all, the open ones under active, the completed ones under completed, and
\* under overdue the open ones with a due date before now.
C14_FilterCorrectness ==
    /\ Len(filteredTasks) = Cardinality(Selected)
    /\ { filteredTasks[i] : i \in 1..Len(filteredTasks) }
          = { tasks[k] : k \in Selected }

\* under overdue one of three tasks is displayed; of the other two one is
\* open and due now, one completed with its due date past
C14_Witness ==
    /\ statusFilter = "overdue"
    /\ Len(tasks) = 3
    /\ Len(filteredTasks) = 1
    /\ \E k \in 1..3 : ~tasks[k].completed /\ tasks[k].dueDate = Some(dateNow)
    /\ \E k \in 1..3 : tasks[k].completed /\ tasks[k].dueDate = Some(dateNow - 1)

\* the group of a displayed task and its due date, 0 without one
SameGroup(a, b) == a.completed = b.completed
DueKey(t) == IF t.dueDate = None THEN 0 ELSE t.dueDate[1]

C16_SortStability ==
    \A i, j \in 1..Len(filteredTasks) :
        (/\ i < j
         /\ SameGroup(filteredTasks[i], filteredTasks[j])
         /\ filteredTasks[i].dueDate = filteredTasks[j].dueDate)
        => \E k, l \in 1..Len(tasks) :
              /\ k < l
              /\ tasks[k] = filteredTasks[i]
              /\ tasks[l] = filteredTasks[j]

\* the first two tasks of the collection are open with the same due date and
\* the third, due later, is displayed before them
C16_Witness ==
    /\ statusFilter = "active"
    /\ Len(tasks) = 3
    /\ tasks[1].dueDate = Some(dateNow - 1)
    /\ tasks[2].dueDate = tasks[1].dueDate
    /\ filteredTasks = <<tasks[3], tasks[1], tasks[2]>>

\* C17: the chart has 7 buckets, for the days from six days before today to
\* today in this order, and the bucket of a day counts the tasks that are
\* completed and have a completedAt on that day, and no other task.
C17_AnalyticsWindow ==
    chartData # <<>> =>
        /\ Len(chartData) = 7
        /\ \A b \in 1..7 :
              /\ chartData[b].date = DayOf(dateNow) - 7 + b
              /\ chartData[b].completed =
                    Cardinality({ k \in 1..Len(tasks) :
                                    /\ tasks[k].completed
                                    /\ tasks[k].completedAt # None
                                    /\ DayOf(tasks[k].completedAt[1])
                                          = DayOf(dateNow) - 7 + b })

\* one task completed today and one on the first day of the window are
\* counted, one completed the day before the window is not
C17_Witness ==
    /\ Len(chartData) = 7
    /\ chartData[1].completed = 1
    /\ chartData[7].completed = 1
    /\ Len(tasks) = 3
    /\ \A k \in 1..3 : tasks[k].completed /\ tasks[k].completedAt # None

\* the draft is a scheduled one without due date, or a recurring one without
\* interval, unit or repetitions
Incomplete(values) ==
    \/ values.type = "scheduled" /\ values.dueDate = None
    \/ /\ values.isRecurring
       /\ \/ values.recurringInterval = None
          \/ values.recurringIntervalUnit = None
          \/ values.repetitions = None

\* C18: the submission of a scheduled draft without due date, or of a
\* recurring draft without interval, unit or repetitions, returns before
\* addTask is called and leaves the collection as it is: a step that calls
\* setTasks, draws an identifier or changes the collection is the submission
\* of no such draft.
C18_ValidationRejection ==
    [][ \/ /\ tasks' = tasks
           /\ pending' = pending
           /\ nextId' = nextId
           /\ ~last'.accepted
        \/ \A values \in DraftValues :
              Incomplete(values) => ~onSubmit(values)
      ]_vars

\* a draft was turned down while the collection held a daily task without
\* due date
C18_Witness ==
    /\ last.op = "onSubmit"
    /\ ~last.accepted
    /\ pending = 0
    /\ Len(tasks) >= 1
    /\ tasks[1].type = "daily"
    /\ tasks[1].dueDate = None

\* C19: every recurring task of a collection that the form alone has filled
\* has a recurringInterval above 0 and repetitions above 0.
C19_RecurrenceValidity ==
    \A i \in 1..Len(tasks) :
        tasks[i].isRecurring =>
            /\ tasks[i].recurringInterval # None
            /\ tasks[i].recurringInterval[1] > 0
            /\ tasks[i].repetitions # None
            /\ tasks[i].repetitions[1] > 0

\* C21: the collection grows only by an accepted submit, which adds the
\* created task, and by an update that sets completed to true on a task
\* that, before the update, recurs and has repetitions above 0, which adds
\* one task; no delete and no render adds a task, and updateTask, applied
\* to the collection of any render, adds none for changes that set completed
\* to false or leave it out, nor for a task that does not recur.
C21_SpawnTrigger ==
    [][ /\ Len(tasks') > Len(tasks) =>
              \/ /\ last'.op = "onSubmit"
                 /\ last'.accepted
                 /\ Len(tasks') = Len(tasks) + 1
                 /\ tasks'[Len(tasks')].id = last'.id
              \/ /\ last'.op \in UpdateOps
                 /\ findIndex(tasks, last'.id) # 0
                 /\ tasks'[findIndex(tasks, last'.id)].completed
                 /\ TaskOf(tasks, last'.id).isRecurring
                 /\ RepetitionsOf(TaskOf(tasks, last'.id)) > 0
                 /\ Len(tasks') = Len(tasks) + 1
        /\ last'.op = "render" =>
              \A i \in 1..Len(tasks) :
                  /\ Len(updateTask(tasks, tasks[i].id, [completed |-> FALSE],
                                    nextId)) = Len(tasks)
                  /\ Len(updateTask(tasks, tasks[i].id, [title |-> "u"],
                                    nextId)) = Len(tasks)
                  /\ ~tasks[i].isRecurring =>
                        Len(updateTask(tasks, tasks[i].id,
                                       [completed |-> TRUE], nextId))
                            = Len(tasks)
      ]_vars

\* the one subtask of a recurring task was ticked and the successor stands
\* behind the task
C21_Witness ==
    /\ last.op = "handleSubtaskComplete"
    /\ last.completed
    /\ Len(tasks) = 2
    /\ tasks[1].id = last.id
    /\ tasks[1].completed
    /\ tasks[1].isRecurring
    /\ tasks[2].id = nextId - 1
    /\ ~tasks[2].completed
    /\ Len(tasks[2].subtasks) = 1

\* the steps of handleSuggestSubtasks, before and after its await
SuggestOps == {"handleSuggestSubtasks", "suggestionsReturn"}
\* the toasts of variant 'destructive'
ErrorToasts == {"Description needed", "Error"}
\* a result with no suggestion in it: an error, or an empty list of titles
NothingUseful(result) ==
    result.subtasks = None \/ result.subtasks = Some(<<>>)

\* C22: AI-suggestion failure isolation. When the suggestion request fails
\* (empty description or provider error) or returns nothing useful, the step
\* shows an error toast; and no step of handleSuggestSubtasks changes the task
\* collection, the store or the identifiers, so that its result never reaches
\* addTask, updateTask or deleteTask.
C22_FailureIsolation ==
    [][ /\ (last'.op = "handleSuggestSubtasks" /\ description = "")
               => toast' \in ErrorToasts
        /\ (/\ last'.op = "suggestionsReturn"
            /\ NothingUseful(getAISubtaskSuggestions(request[1].description,
                                                     request[1].flow)))
               => toast' \in ErrorToasts
        /\ last'.op \in SuggestOps
               => UNCHANGED <<tasks, rendered, nextId, pending, stored>>
      ]_vars

\* C27: suggestion/draft pairing. A result that adds titles to the subtask
\* list of the dialog was requested from the draft the dialog holds at that
\* moment, not from one submitted in between; and the step in which a result
\* arrives changes no task of the collection.
C27_DraftPairing ==
    [][ last'.op = "suggestionsReturn" =>
            /\ draftSubtasks' # draftSubtasks => request[1].draft = draftNo
            /\ tasks' = tasks
      ]_vars

\* C23: read-only projection. A step that computes the filtered and sorted
\* view or the analytics aggregates leaves the task collection as it was,
\* contents and order, and with it what is rendered and stored; and for every
\* filter value the array of tasks after the memo ran is the array before.
C23_ReadOnlyProjection ==
    [][ /\ viewVars' # viewVars => UNCHANGED <<tasks, rendered, stored>>
        /\ \A filter \in StatusFilters :
               memoFilteredTasks(tasks, filter, dateNow).tasks = tasks
      ]_vars

\* the filter 'all' shows every task in another order than the collection
\* has, and the chart has been computed
C23_Witness ==
    /\ statusFilter = "all"
    /\ Len(tasks) >= 2
    /\ Len(filteredTasks) = Len(tasks)
    /\ filteredTasks # tasks
    /\ chartData # <<>>
    /\ \E i \in 1..Len(chartData) : chartData[i].completed > 0

\* C24: bounded spawning per task. Over any sequence of operations a
\* recurring task created with repetitions = n has directly spawned at most
\* n - 1 successors (updateTask never changes the repetitions of the task it
\* completes, so the count in the collection is the one it was created with).
C24_BoundedSpawning ==
    \A i \in 1..Len(tasks) :
        (tasks[i].isRecurring /\ RepetitionsOf(tasks[i]) > 0)
            => spawned[tasks[i].id] <= RepetitionsOf(tasks[i]) - 1

\* changes as the checkboxes and an edit of the title would pass them
SampleUpdates ==
    { [completed |-> TRUE, completedAt |-> Some(1)],
      [completed |-> FALSE, completedAt |-> None],
      [title |-> "u"] }

\* C25: update frame. An update of an existing id keeps every task at its
\* position, leaves every other task field for field as it was, changes on
\* the task itself only the fields passed (a shallow merge), and changes the
\* structure at most by one successor appended at the end.
C25_UpdateFrame ==
    [][ /\ (last'.op \in UpdateOps /\ findIndex(tasks, last'.id) # 0) =>
               LET k == findIndex(tasks, last'.id)
               IN  /\ Len(tasks') \in {Len(tasks), Len(tasks) + 1}
                   /\ \A i \in 1..Len(tasks) :
                          /\ tasks'[i].id = tasks[i].id
                          /\ i # k => tasks'[i] = tasks[i]
                   /\ \A f \in DOMAIN tasks[k] \
                               {"completed", "completedAt", "subtasks"} :
                          tasks'[k][f] = tasks[k][f]
        /\ last'.op = "render" =>
               \A i \in 1..Len(tasks), u \in SampleUpdates :
                   LET r == updateTask(tasks, tasks[i].id, u, nextId)
                   IN  /\ Len(r) \in {Len(tasks), Len(tasks) + 1}
                       /\ r[i] = Merge(tasks[i], u)
                       /\ \A j \in 1..Len(tasks) : j # i => r[j] = tasks[j]
      ]_vars

\* the first of two tasks was completed and its successor stands at the end,
\* behind the task that was not touched
C25_Witness ==
    /\ last.op \in UpdateOps
    /\ Len(tasks) = 3
    /\ tasks[1].id = last.id
    /\ tasks[1].completed
    /\ ~tasks[2].completed
    /\ tasks[3].id = nextId - 1
    /\ tasks[3].isRecurring
    /\ ~tasks[3].completed

\* C26: non-destructive startup. From the start of the page until its load
\* effect has run and the loaded collection is set, no step changes the
\* collection the store held at the start: the mount, load and save effects
\* leave the item as it was, and a stored collection is not overwritten by
\* the empty initial one.
C26_NonDestructiveStartup ==
    [][ (~isLoaded /\ stored.kind = "array") => stored' = stored ]_vars

\* the tasks the memo selects under a filter, as a set
SelectedBy(filter) == Range(filteredTasksOf(tasks, filter, dateNow))

\* C28: filter partition. For every collection the tasks selected by active
\* and those selected by completed are disjoint, together they are the tasks
\* selected by all, which are all tasks of the collection, and every task
\* selected by overdue is selected by active; the same holds task by task for
\* the filter function.
C28_FilterPartition ==
    /\ SelectedBy("active") \cap SelectedBy("completed") = {}
    /\ SelectedBy("active") \cup SelectedBy("completed") = SelectedBy("all")
    /\ SelectedBy("all") = Range(tasks)
    /\ SelectedBy("overdue") \subseteq SelectedBy("active")
    /\ \A k \in 1..Len(tasks) :
          /\ filterFn(tasks[k], "active", dateNow)
                 # filterFn(tasks[k], "completed", dateNow)
          /\ filterFn(tasks[k], "overdue", dateNow)
                 => filterFn(tasks[k], "active", dateNow)

\* the overdue filter shows one task of three: the second open one is not
\* overdue, and the completed one has its due date past
C28_Witness ==
    /\ statusFilter = "overdue"
    /\ Len(tasks) = 3
    /\ Cardinality(SelectedBy("overdue")) = 1
    /\ Cardinality(SelectedBy("active")) = 2
    /\ Cardinality(SelectedBy("completed")) = 1
    /\ filteredTasks = filteredTasksOf(tasks, "overdue", dateNow)
    /\ \E k \in 1..3 : tasks[k].completed /\ tasks[k].dueDate = Some(dateNow - 1)

\* a predecessor and its successor: the successor carries copies of the
\* predecessor's subtasks under the same subtask identifiers
SameLineage(a, b) ==
    /\ a.id # b.id
    /\ \E x \in Range(a.subtasks), y \in Range(b.subtasks) : x.id = y.id

\* C29: subtask isolation between predecessor and successor. Toggling a
\* subtask of one of the two leaves the other, with its subtasks, completed
\* flag and completedAt, as it was and where it was; deleting one of the two
\* leaves the other in the collection unchanged.
C29_SubtaskIsolation ==
    [][ \A i, j \in 1..Len(tasks) :
            (SameLineage(tasks[i], tasks[j]) /\ last'.id = tasks[i].id) =>
                /\ last'.op = "handleSubtaskComplete" => tasks'[j] = tasks[j]
                /\ last'.op = "deleteTask" =>
                       /\ \E m \in 1..Len(tasks') : tasks'[m] = tasks[j]
                       /\ \A m \in 1..Len(tasks') : tasks'[m].id # tasks[i].id
      ]_vars

\* the subtask of the successor was checked off while the predecessor's
\* subtask of the same identifier stayed unchecked
C29_Witness ==
    /\ last.op = "handleSubtaskComplete"
    /\ last.completed
    /\ Len(tasks) = 2
    /\ last.id = tasks[2].id
    /\ SameLineage(tasks[1], tasks[2])
    /\ tasks[2].subtasks[1].completed
    /\ ~tasks[1].subtasks[1].completed
    /\ tasks[1].subtasks[1].id = last.sub

RECURSIVE chainLength(_, _)
\* the tasks of the chain that starts with t when each is completed once,
\* counted up to fuel
chainLength(t, fuel) ==
    IF fuel = 0 THEN 0
    ELSE IF spawns(t, [completed |-> TRUE])
         THEN 1 + chainLength(newTaskOf(t, 0, newRepetitionsOf(t)), fuel - 1)
         ELSE 1

\* C30: chain termination. The successor a completion appends has the
\* repetitions its predecessor had before the completion minus one, and at
\* least 1; and the chain that starts with a task of repetitions n > 0, each
\* task completed once, has at most n tasks, the last of which spawns nothing.
C30_ChainTermination ==
    [][ /\ (/\ last'.op \in UpdateOps
            /\ findIndex(tasks, last'.id) # 0
            /\ Len(tasks') > Len(tasks)) =>
               LET predecessor == TaskOf(tasks, last'.id)
                   successor == tasks'[Len(tasks')]
               IN  /\ successor.isRecurring
                   /\ RepetitionsOf(successor) = RepetitionsOf(predecessor) - 1
                   /\ RepetitionsOf(successor) >= 1
        /\ last'.op = "render" =>
               \A i \in 1..Len(tasks) :
                   RepetitionsOf(tasks[i]) > 0 =>
                       chainLength(tasks[i], RepetitionsOf(tasks[i]) + 1)
                           <= RepetitionsOf(tasks[i])
      ]_vars

\* the successor of a task with two repetitions has one, and its completion
\* has spawned nothing
C30_Witness ==
    /\ last.op \in UpdateOps
    /\ last.completed
    /\ Len(tasks) = 2
    /\ RepetitionsOf(tasks[1]) = RepetitionsOf(tasks[2]) + 1
    /\ RepetitionsOf(tasks[2]) = 1
    /\ tasks[1].completed
    /\ tasks[2].completed
    /\ last.id = tasks[2].id
    /\ spawned[tasks[1].id] = 1
    /\ spawned[tasks[2].id] = 0
====
